---- MODULE Spec2Model ----
(***************************************************************************)
(* Task / TaskAttempt lifecycle of oneanddone (oneanddone/tasks/models.py). *)
(* The database rows of Task and TaskAttempt are the state; Task.save, the  *)
(* two maintenance sweeps and the availability predicates are translated    *)
(* from the model layer.                                                    *)
(***************************************************************************)
EXTENDS Integers, Sequences, FiniteSets

\* ---------------------------------------------------------------- bounds
MaxTime == 1
MaxAttempts == 2
\* The longest attempt whose length is shown, in seconds.
MaxSeconds == 91
\* The longest list of keywords an editor submits.
MaxKeywords == 2

\* ------------------------------------------------------ program constants
STARTED == 0
FINISHED == 1
ABANDONED == 2
CLOSED == 3
TASK_ATTEMPT_EXPIRATION_DURATION == 1
\* round((end_seconds - start_seconds) / 60, 1): seconds per minute, and the
\* number of values of one decimal place per unit.
SECONDS_PER_MINUTE == 60
ROUND_1 == 10

\* A null DateTimeField (blank=True, null=True).
None == -1

Tasks == {1, 2}
Users == {"A", "B"}
Times == 0..MaxTime
Dates == {None} \cup Times
\* (start_date, end_date) pairs an editor saves: no dates, an end date, or a
\* start date.
Windows == {<<None, None>>, <<None, 0>>, <<1, None>>}

VARIABLES
    tasks,       \* Task rows: id -> fields
    attempts,    \* TaskAttempt rows in creation order
    now,         \* timezone.now()
    last,        \* the operation of the last step and the rows it wrote
    savePc,      \* position of an in-flight Task.save
    saveTask,    \* the task that save is for
    saveOpen,    \* the attempts that were Started on it when it was saved
    sweepPc,     \* position of an in-flight close_expired_task_attempts
    sweepQueue,  \* its open_attempts still to visit
    sweepClosed, \* its local counter closed
    keywords,    \* TaskKeyword rows in creation order
    shown        \* created and modified of the attempt whose length is shown

vars == <<tasks, attempts, now, last, savePc, saveTask, saveOpen,
          sweepPc, sweepQueue, sweepClosed, keywords, shown>>

saveVars == <<savePc, saveTask, saveOpen>>
sweepVars == <<sweepPc, sweepQueue, sweepClosed>>
pageVars == <<keywords, shown>>

AttemptIds == 1..Len(attempts)
TerminalStates == {FINISHED, ABANDONED, CLOSED}

\* ------------------------------------------------------------ predicates

\* is_available without the early return on is_draft / is_invalid.
is_available_noflags(task, n) ==
    ~( (task.end_date # None /\ n > task.end_date)
       \/ (task.start_date # None /\ n < task.start_date) )

\* Task.is_available with timezone.now() = n.
is_available(task, n) ==
    IF task.is_draft \/ task.is_invalid
    THEN FALSE
    ELSE ~( (task.end_date # None /\ n > task.end_date)
            \/ (task.start_date # None /\ n < task.start_date) )

\* repeatable_filter matching only the Started rows of other users.
repeatable_filter_started(atts, t, u) ==
    {i \in 1..Len(atts) : /\ atts[i].task = t
                          /\ atts[i].user # u
                          /\ atts[i].state = STARTED}

\* repeatable_filter without ~Q(user=user).
repeatable_filter_anyuser(atts, t, u) ==
    {i \in 1..Len(atts) : /\ atts[i].task = t
                          /\ atts[i].state # ABANDONED}

\* repeatable_filter without ~Q(state=ABANDONED).
repeatable_filter_nostate(atts, t, u) ==
    {i \in 1..Len(atts) : /\ atts[i].task = t
                          /\ atts[i].user # u}

\* repeatable_filter of is_available_to_user: rows of the task matching
\* ~Q(user=user) & ~Q(state=ABANDONED).
repeatable_filter(atts, t, u) ==
    {i \in 1..Len(atts) : /\ atts[i].task = t
                          /\ atts[i].user # u
                          /\ atts[i].state # ABANDONED}

is_available_to_user(tsk, atts, t, u, n) ==
    /\ is_available(tsk[t], n)
    /\ (tsk[t].repeatable \/ repeatable_filter(atts, t, u) = {})

\* is_taken without "not self.repeatable".
is_taken_anytask(tsk, atts, t) ==
    {i \in 1..Len(atts) : atts[i].task = t /\ atts[i].state = STARTED} # {}

\* Task.is_taken: not repeatable and
\* taskattempt_set.filter(state=STARTED).exists()
is_taken(tsk, atts, t) ==
    /\ ~tsk[t].repeatable
    /\ {i \in 1..Len(atts) : atts[i].task = t /\ atts[i].state = STARTED} # {}

\* Task.is_completed: not repeatable and
\* taskattempt_set.filter(state=FINISHED).exists()
is_completed(tsk, atts, t) ==
    /\ ~tsk[t].repeatable
    /\ {i \in 1..Len(atts) : atts[i].task = t /\ atts[i].state = FINISHED} # {}

\* A datetime is a number of clock ticks: SecondLen ticks make a second (the
\* tick within the second is the microsecond field), DayLen ticks make a day.
SecondLen == 2
DayLen == 2 * SecondLen

\* The datetimes a listing is asked for: one day and the next midnight.
FilterTimes == 0..DayLen
FilterDates == {None} \cup FilterTimes

\* now.replace(hour=0, minute=0, second=0): the date and the microsecond of
\* now are kept.
now_replace(n) == (n \div DayLen) * DayLen + (n % SecondLen)

\* is_available_filter applying the end_date test whatever allow_expired is.
is_available_filter_noexpired(tsk, atts, t, n, allow_expired) ==
    LET day == now_replace(n)
    IN /\ ~tsk[t].is_draft
       /\ ~tsk[t].is_invalid
       /\ (tsk[t].start_date = None \/ tsk[t].start_date <= day)
       /\ (tsk[t].end_date = None \/ tsk[t].end_date > day)
       /\ \/ tsk[t].repeatable
          \/ /\ ~\E i \in 1..Len(atts) : atts[i].task = t /\ atts[i].state = STARTED
             /\ ~\E i \in 1..Len(atts) : atts[i].task = t /\ atts[i].state = FINISHED

\* Task.is_available_filter(now=n, allow_expired): whether the Q object
\* matches task t.
is_available_filter(tsk, atts, t, n, allow_expired) ==
    LET day == now_replace(n)
    IN /\ ~tsk[t].is_draft
       /\ ~tsk[t].is_invalid
       /\ (tsk[t].start_date = None \/ tsk[t].start_date <= day)
       /\ (allow_expired \/ tsk[t].end_date = None \/ tsk[t].end_date > day)
       /\ \/ tsk[t].repeatable
          \/ /\ ~\E i \in 1..Len(atts) : atts[i].task = t /\ atts[i].state = STARTED
             /\ ~\E i \in 1..Len(atts) : atts[i].task = t /\ atts[i].state = FINISHED

\* attempt_length_in_minutes without the division by 60.
attempt_length_in_seconds(row) ==
    {((row.modified \div SecondLen) - (row.created \div SecondLen)) * ROUND_1}

\* TaskAttempt.attempt_length_in_minutes, in tenths of a minute.
\* created.timetuple() drops the microsecond, time.mktime gives whole seconds.
\* round(x, 1) yields the nearest value of one decimal place; where the
\* quotient is a decimal tie (x.x5) the double nearest to it lies just above
\* or just below the tie, so either neighbour can be the result.
attempt_length_in_minutes(row) ==
    LET start_seconds == row.created \div SecondLen
        end_seconds == row.modified \div SecondLen
        scaled == (end_seconds - start_seconds) * ROUND_1
        lo == scaled \div SECONDS_PER_MINUTE
        rem == scaled % SECONDS_PER_MINUTE
    IN IF 2 * rem < SECONDS_PER_MINUTE THEN {lo}
       ELSE IF 2 * rem > SECONDS_PER_MINUTE THEN {lo + 1}
       ELSE {lo, lo + 1}

\* ------------------------------------------------------------ operations

\* What the step that led here wrote: the operation and its row count
\* (the value of update(), or the counter closed), when it wrote any row.
Wrote(op, n) == IF n = 0 THEN [op |-> "none", n |-> 0] ELSE [op |-> op, n |-> n]

\* The write of a closing operation without requires_notification=True.
CloseRow_state_only(row) == [row EXCEPT !.state = CLOSED]

\* state=CLOSED, requires_notification=True, as every closing operation
\* writes them.
CloseRow(row) == [row EXCEPT !.state = CLOSED, !.requires_notification = TRUE]

\* taskattempt_set without filter(state=STARTED).
save_open_unfiltered(atts, t) ==
    {i \in 1..Len(atts) : atts[i].task = t}

\* taskattempt_set.filter(state=STARTED) of Task.save
save_open(atts, t) ==
    {i \in 1..Len(atts) : atts[i].task = t /\ atts[i].state = STARTED}

\* .update(state=CLOSED, requires_notification=True) over a set of rows
update_closed(atts, rows) ==
    [i \in 1..Len(atts) |-> IF i \in rows THEN CloseRow(atts[i]) ELSE atts[i]]

\* The fields a save writes; repeatable is left as it was created.
TaskFields(d, v, s, e) ==
    [is_draft |-> d, is_invalid |-> v, start_date |-> s, end_date |-> e]

SaveFields ==
    {TaskFields(FALSE, FALSE, w[1], w[2]) : w \in Windows}
    \cup {TaskFields(TRUE, FALSE, None, None), TaskFields(FALSE, TRUE, None, None)}

WriteTask(task, f) ==
    [task EXCEPT !.is_draft = f.is_draft, !.is_invalid = f.is_invalid,
                 !.start_date = f.start_date, !.end_date = f.end_date]

\* Task.save as one transaction-free but uninterrupted call.
Save(t, f) ==
    /\ tasks' = [tasks EXCEPT ![t] = WriteTask(tasks[t], f)]
    /\ LET rows == IF ~is_available(tasks'[t], now)
                   THEN save_open(attempts, t) ELSE {}
       IN /\ attempts' = update_closed(attempts, rows)
          /\ last' = Wrote("save", Cardinality(rows))
    /\ UNCHANGED <<now, saveVars, sweepVars, pageVars>>

\* expired_onetime_attempts without state=STARTED.
stale_rows_anystate(atts, tsk, n) ==
    {i \in 1..Len(atts) : /\ atts[i].created <= n - TASK_ATTEMPT_EXPIRATION_DURATION
                          /\ ~tsk[atts[i].task].repeatable}

\* close_stale_onetime_attempts: one UPDATE statement over the rows matching
\* state=STARTED, created__lte=compare_date, task__repeatable=False.
stale_rows(atts, tsk, n) ==
    {i \in 1..Len(atts) : /\ atts[i].state = STARTED
                          /\ atts[i].created <= n - TASK_ATTEMPT_EXPIRATION_DURATION
                          /\ ~tsk[atts[i].task].repeatable}

CloseStaleOnetimeAttempts ==
    /\ LET rows == stale_rows(attempts, tasks, now)
       IN /\ attempts' = update_closed(attempts, rows)
          /\ last' = Wrote("close_stale", Cardinality(rows))
    /\ UNCHANGED <<tasks, now, saveVars, sweepVars, pageVars>>

\* The test of the loop with its negation lost.
expired_test_available(tsk, row, n) == is_available(tsk[row.task], n)

\* close_expired_task_attempts: the loop over open_attempts, row by row;
\* "if not attempt.task.is_available".
expired_test(tsk, row, n) == ~is_available(tsk[row.task], n)

\* The loop leaving at the first attempt it closes.
RECURSIVE close_expired_loop_first(_, _, _, _, _)
close_expired_loop_first(atts, tsk, n, i, closed) ==
    IF i > Len(atts)
    THEN [attempts |-> atts, closed |-> closed]
    ELSE IF atts[i].state = STARTED /\ expired_test(tsk, atts[i], n)
         THEN [attempts |-> [atts EXCEPT ![i] = CloseRow(atts[i])],
               closed |-> closed + 1]
         ELSE close_expired_loop_first(atts, tsk, n, i + 1, closed)

RECURSIVE close_expired_loop(_, _, _, _, _)
close_expired_loop(atts, tsk, n, i, closed) ==
    IF i > Len(atts)
    THEN [attempts |-> atts, closed |-> closed]
    ELSE IF atts[i].state = STARTED /\ expired_test(tsk, atts[i], n)
         THEN close_expired_loop([atts EXCEPT ![i] = CloseRow(atts[i])],
                                 tsk, n, i + 1, closed + 1)
         ELSE close_expired_loop(atts, tsk, n, i + 1, closed)

CloseExpiredTaskAttempts ==
    /\ LET r == close_expired_loop(attempts, tasks, now, 1, 0)
       IN /\ attempts' = r.attempts
          /\ last' = Wrote("close_expired", r.closed)
    /\ UNCHANGED <<tasks, now, saveVars, sweepVars, pageVars>>

\* ---------------------------------------------------- environment steps

Tick ==
    /\ now < MaxTime
    /\ now' = now + 1
    /\ last' = Wrote("none", 0)
    /\ UNCHANGED <<tasks, attempts, saveVars, sweepVars, pageVars>>

\* A user claims a task: a new row with the field defaults.
NewAttempt(t, u, n) ==
    [user |-> u, task |-> t, state |-> STARTED,
     requires_notification |-> FALSE, created |-> n]

CreateAttempt(t, u) ==
    /\ Len(attempts) < MaxAttempts
    /\ is_available_to_user(tasks, attempts, t, u, now)
    /\ attempts' = Append(attempts, NewAttempt(t, u, now))
    /\ last' = Wrote("none", 0)
    /\ UNCHANGED <<tasks, now, saveVars, sweepVars, pageVars>>

UserStep(i, s) ==
    /\ i \in AttemptIds
    /\ attempts[i].state = STARTED
    /\ attempts' = [attempts EXCEPT ![i].state = s]
    /\ last' = Wrote("none", 0)
    /\ UNCHANGED <<tasks, now, saveVars, sweepVars, pageVars>>

FinishAttempt(i) == UserStep(i, FINISHED)
AbandonAttempt(i) == UserStep(i, ABANDONED)

\* ------------------------------------------------------- specification

InitTask(r) ==
    [is_draft |-> FALSE, is_invalid |-> FALSE, start_date |-> None,
     end_date |-> None, repeatable |-> r]

InitRows ==
    /\ tasks = [t \in Tasks |-> InitTask(t = 2)]
    /\ attempts = <<>>
    /\ now = 0
    /\ last = Wrote("none", 0)
    /\ savePc = "idle" /\ saveTask = 0 /\ saveOpen = {}
    /\ sweepPc = "idle" /\ sweepQueue = <<>> /\ sweepClosed = 0
    /\ keywords = <<>>

Init ==
    /\ InitRows
    /\ shown = [created |-> 0, modified |-> 0]

Next ==
    \/ Tick
    \/ \E t \in Tasks, u \in Users : CreateAttempt(t, u)
    \/ \E i \in 1..MaxAttempts : FinishAttempt(i)
    \/ \E i \in 1..MaxAttempts : AbandonAttempt(i)
    \/ \E t \in Tasks, f \in SaveFields : Save(t, f)
    \/ CloseStaleOnetimeAttempts
    \/ CloseExpiredTaskAttempts

Spec == Init /\ [][Next]_vars

\* The same system with one claimant: Task.save and the sweeps never read the
\* user of an attempt.
NextLifecycle ==
    \/ Tick
    \/ \E t \in Tasks : CreateAttempt(t, "A")
    \/ \E i \in 1..MaxAttempts : FinishAttempt(i)
    \/ \E i \in 1..MaxAttempts : AbandonAttempt(i)
    \/ \E t \in Tasks, f \in SaveFields : Save(t, f)
    \/ CloseStaleOnetimeAttempts
    \/ CloseExpiredTaskAttempts

LifecycleSpec == Init /\ [][NextLifecycle]_vars

\* The same system with every user, where an editor publishes or invalidates
\* a task and sets no dates.
PublishFields ==
    {TaskFields(FALSE, v, None, None) : v \in BOOLEAN}

NextClaim ==
    \/ Tick
    \/ \E t \in Tasks, u \in Users : CreateAttempt(t, u)
    \/ \E i \in 1..MaxAttempts : FinishAttempt(i)
    \/ \E i \in 1..MaxAttempts : AbandonAttempt(i)
    \/ \E t \in Tasks, f \in PublishFields : Save(t, f)
    \/ CloseStaleOnetimeAttempts
    \/ CloseExpiredTaskAttempts

ClaimSpec == Init /\ [][NextClaim]_vars

\* ------------------------------------- the same calls, statement by statement
\* Task.save: super().save() commits the row; the update of the open attempts
\* is a second statement, and the process may die between the two.
SaveWrite(t, f) ==
    /\ savePc \in {"idle", "crashed"}
    /\ tasks' = [tasks EXCEPT ![t] = WriteTask(tasks[t], f)]
    /\ savePc' = "written"
    /\ saveTask' = t
    /\ saveOpen' = save_open(attempts, t)
    /\ last' = Wrote("none", 0)
    /\ UNCHANGED <<attempts, now, sweepVars, pageVars>>

SaveClose ==
    /\ savePc = "written"
    /\ LET rows == IF ~is_available(tasks[saveTask], now)
                   THEN save_open(attempts, saveTask) ELSE {}
       IN /\ attempts' = update_closed(attempts, rows)
          /\ last' = Wrote("save", Cardinality(rows))
    /\ savePc' = "idle"
    /\ saveTask' = 0
    /\ saveOpen' = {}
    /\ UNCHANGED <<tasks, now, sweepVars, pageVars>>

SaveCrash ==
    /\ savePc = "written"
    /\ savePc' = "crashed"
    /\ last' = Wrote("none", 0)
    /\ UNCHANGED <<tasks, attempts, now, saveTask, saveOpen, sweepVars, pageVars>>

\* close_expired_task_attempts: the queryset is evaluated when the loop starts,
\* attempt.task.is_available is read when the row is visited, and
\* attempt.save() writes the row by primary key whatever its current state.
RECURSIVE open_attempts(_, _)
open_attempts(atts, i) ==
    IF i > Len(atts) THEN <<>>
    ELSE IF atts[i].state = STARTED
         THEN <<i>> \o open_attempts(atts, i + 1)
         ELSE open_attempts(atts, i + 1)

SweepSelect ==
    /\ sweepPc = "idle"
    /\ sweepQueue' = open_attempts(attempts, 1)
    /\ sweepClosed' = 0
    /\ sweepPc' = "loop"
    /\ last' = Wrote("none", 0)
    /\ UNCHANGED <<tasks, attempts, now, saveVars, pageVars>>

SweepVisit ==
    /\ sweepPc = "loop"
    /\ sweepQueue # <<>>
    /\ LET i == Head(sweepQueue)
       IN IF expired_test(tasks, attempts[i], now)
          THEN /\ attempts' = [attempts EXCEPT ![i] = CloseRow(attempts[i])]
               /\ sweepClosed' = sweepClosed + 1
          ELSE UNCHANGED <<attempts, sweepClosed>>
    /\ sweepQueue' = Tail(sweepQueue)
    /\ last' = Wrote("none", 0)
    /\ UNCHANGED <<tasks, now, sweepPc, saveVars, pageVars>>

SweepReturn ==
    /\ sweepPc = "loop"
    /\ sweepQueue = <<>>
    /\ sweepPc' = "idle"
    /\ sweepClosed' = 0
    /\ last' = Wrote("close_expired", sweepClosed)
    /\ UNCHANGED <<tasks, attempts, now, sweepQueue, saveVars, pageVars>>

NextConc ==
    \/ Tick
    \/ \E t \in Tasks : CreateAttempt(t, "A")
    \/ \E i \in 1..MaxAttempts : FinishAttempt(i)
    \/ \E i \in 1..MaxAttempts : AbandonAttempt(i)
    \/ \E t \in Tasks, f \in SaveFields : SaveWrite(t, f)
    \/ SaveClose
    \/ SaveCrash
    \/ CloseStaleOnetimeAttempts
    \/ SweepSelect
    \/ SweepVisit
    \/ SweepReturn

ConcSpec == Init /\ [][NextConc]_vars

\* ------------------------------------------------ the keywords of a task
\* The strings of a submitted list; the form field may hold empty entries.
Names == {"", "a", "b"}
KeywordLists == UNION {[1..k -> Names] : k \in 0..MaxKeywords}

\* keyword_set.create(name=keyword, creator=creator)
NewKeyword(t, name, creator) == [task |-> t, name |-> name, creator |-> creator]

\* self.keyword_set.all().delete()
keyword_set_delete(rows, t) == SelectSeq(rows, LAMBDA r : r.task # t)

\* The loop of replace_keywords without "if len(keyword)".
RECURSIVE create_keywords_unfiltered(_, _, _, _)
create_keywords_unfiltered(rows, t, kws, creator) ==
    IF kws = <<>> THEN rows
    ELSE create_keywords_unfiltered(Append(rows, NewKeyword(t, Head(kws), creator)),
                                    t, Tail(kws), creator)

\* for keyword in keywords: if len(keyword): self.keyword_set.create(...)
RECURSIVE create_keywords(_, _, _, _)
create_keywords(rows, t, kws, creator) ==
    IF kws = <<>> THEN rows
    ELSE create_keywords(IF Len(Head(kws)) # 0
                         THEN Append(rows, NewKeyword(t, Head(kws), creator))
                         ELSE rows,
                         t, Tail(kws), creator)

\* Task.replace_keywords(keywords, creator)
ReplaceKeywords(t, kws, creator) ==
    /\ keywords' = create_keywords(keyword_set_delete(keywords, t), t, kws, creator)
    /\ UNCHANGED <<tasks, attempts, now, last, saveVars, sweepVars, shown>>

NextKeyword ==
    \E t \in Tasks, kws \in KeywordLists, u \in Users : ReplaceKeywords(t, kws, u)

KeywordSpec == Init /\ [][NextKeyword]_vars

\* ------------------------------------------ the length of an attempt
\* One attempt, created at any tick of the first second; each later
\* attempt.save() sets modified to the time of the save.
MaxStamp == MaxSeconds * SecondLen

LengthInit ==
    /\ InitRows
    /\ shown \in {[created |-> c, modified |-> c] : c \in 0..(SecondLen - 1)}

Touch ==
    /\ shown.modified < MaxStamp
    /\ shown' = [shown EXCEPT !.modified = @ + 1]
    /\ UNCHANGED <<tasks, attempts, now, last, saveVars, sweepVars, keywords>>

LengthSpec == LengthInit /\ [][Touch]_vars

TypeOK ==
    /\ now \in Times
    /\ Len(attempts) <= MaxAttempts
    /\ \A i \in AttemptIds :
        /\ attempts[i].user \in Users /\ attempts[i].task \in Tasks
        /\ attempts[i].state \in {STARTED, FINISHED, ABANDONED, CLOSED}
        /\ attempts[i].created \in Times
    /\ \A t \in Tasks : tasks[t].start_date \in Dates /\ tasks[t].end_date \in Dates
    /\ \A i \in 1..Len(keywords) :
        /\ keywords[i].task \in Tasks /\ keywords[i].creator \in Users
        /\ keywords[i].name \in Names \ {""}
    /\ shown.created <= shown.modified /\ shown.modified <= MaxStamp

\* ------------------------------------------------------------------ claims

OnTask(t) == {i \in AttemptIds : attempts[i].task = t}
Live(t) == {i \in OnTask(t) : attempts[i].state \in {STARTED, FINISHED}}

\* The fields of a task row that a save writes.
FieldsOf(task) ==
    TaskFields(task.is_draft, task.is_invalid, task.start_date, task.end_date)

\* C1: a Task.save that leaves the task unavailable turns exactly the Started
\* attempts of that task into Closed with requires_notification = TRUE; every
\* other attempt (terminal ones, those of other tasks, and all of them when
\* the saved task is available) keeps its state and its flag.
C1_SaveClosesOpenAttempts ==
    [][\A t \in Tasks :
        Save(t, FieldsOf(tasks'[t])) =>
            /\ Len(attempts') = Len(attempts)
            /\ \A i \in AttemptIds :
                IF /\ attempts[i].task = t
                   /\ attempts[i].state = STARTED
                   /\ ~is_available(tasks'[t], now)
                THEN /\ attempts'[i].state = CLOSED
                     /\ attempts'[i].requires_notification = TRUE
                ELSE /\ attempts'[i].state = attempts[i].state
                     /\ attempts'[i].requires_notification
                            = attempts[i].requires_notification]_vars

\* A save has just closed an attempt of a task it left unavailable, while a
\* Started attempt of the other task is still Started.
C1_Witness ==
    /\ last.op = "save"
    /\ \E i, j \in AttemptIds :
        /\ attempts[i].state = CLOSED /\ attempts[i].requires_notification
        /\ ~is_available(tasks[attempts[i].task], now)
        /\ attempts[j].task # attempts[i].task
        /\ attempts[j].state = STARTED

\* C2: over any sequence of calls of Task.save and of the two sweeps, and of
\* user finish/abandon steps, an attempt that is Finished, Abandoned or Closed
\* keeps that state.
C2_TerminalStatesAreFinal ==
    [][\A i \in AttemptIds :
        attempts[i].state \in TerminalStates
            => attempts'[i].state = attempts[i].state]_vars

\* A closing operation has just run on a task that also has a Finished or
\* Abandoned attempt.
C2_Witness ==
    /\ last.op \in {"save", "close_stale", "close_expired"}
    /\ \E i, j \in AttemptIds :
        /\ attempts[i].task = attempts[j].task
        /\ attempts[i].state \in {FINISHED, ABANDONED}
        /\ attempts[j].state = CLOSED

\* The (task, user) pairs where the task is non-repeatable and available and
\* the user holds a Started attempt on it.
Claimed ==
    {c \in Tasks \X Users :
        /\ ~tasks[c[1]].repeatable
        /\ is_available(tasks[c[1]], now)
        /\ \E i \in OnTask(c[1]) : attempts[i].state = STARTED /\ attempts[i].user = c[2]}

C5_SweepSparesFinished ==
    [][\A i \in AttemptIds :
        attempts[i].state \in {FINISHED, ABANDONED}
            => attempts'[i].state # CLOSED]_vars

\* C6: no committed state has the update of a task persisted as unavailable
\* while an attempt that was Started on it at save time is still Started.
C6_SaveIsAtomic ==
    (savePc \in {"written", "crashed"} /\ ~is_available(tasks[saveTask], now))
        => \A i \in saveOpen : attempts[i].state # STARTED

\* C7: is_available is true exactly when the task is neither draft nor
\* invalid, start_date is absent or <= now, and end_date is absent or > now.
C7_HalfOpenWindow ==
    \A t \in Tasks :
        is_available(tasks[t], now)
            <=> /\ ~tasks[t].is_draft
                /\ ~tasks[t].is_invalid
                /\ (tasks[t].start_date = None \/ tasks[t].start_date <= now)
                /\ (tasks[t].end_date = None \/ now < tasks[t].end_date)

\* C8: a draft or invalid task is not available, and not available to any
\* user, whatever its start_date and end_date and whatever the time.
C8_FlaggedNeverAvailable ==
    \A t \in Tasks :
        (tasks[t].is_draft \/ tasks[t].is_invalid) =>
            \A s \in Dates, e \in Dates, n \in Times :
                LET tsk == [tasks EXCEPT ![t].start_date = s, ![t].end_date = e]
                IN /\ ~is_available(tsk[t], n)
                   /\ \A u \in Users : ~is_available_to_user(tsk, attempts, t, u, n)

\* One task is a draft and the other is invalid.
C8_Witness ==
    \E t1, t2 \in Tasks : tasks[t1].is_draft /\ tasks[t2].is_invalid

\* C9: a non-repeatable available task whose attempts are all Abandoned is
\* available to every user.
C9_AbandonedNeverBlocks ==
    \A t \in Tasks :
        ( /\ ~tasks[t].repeatable
          /\ is_available(tasks[t], now)
          /\ \A i \in OnTask(t) : attempts[i].state = ABANDONED )
        => \A u \in Users : is_available_to_user(tasks, attempts, t, u, now)

\* A non-repeatable available task that both users have abandoned.
C9_Witness ==
    \E t \in Tasks :
        /\ ~tasks[t].repeatable
        /\ is_available(tasks[t], now)
        /\ \A i \in OnTask(t) : attempts[i].state = ABANDONED
        /\ \A u \in Users : \E i \in OnTask(t) : attempts[i].user = u

\* C10: close_expired_task_attempts closes (with requires_notification = TRUE)
\* exactly the Started attempts whose task is not available, leaves every
\* other attempt as it was, and returns the number of attempts it closed.
C10_CloseExpired ==
    [][CloseExpiredTaskAttempts =>
        /\ Len(attempts') = Len(attempts)
        /\ \A i \in AttemptIds :
            IF /\ attempts[i].state = STARTED
               /\ ~is_available(tasks[attempts[i].task], now)
            THEN attempts'[i] = [attempts[i] EXCEPT !.state = CLOSED,
                                                    !.requires_notification = TRUE]
            ELSE attempts'[i] = attempts[i]
        /\ last'.n = Cardinality({i \in AttemptIds :
                                    attempts'[i].state # attempts[i].state})]_vars

\* The sweep has just closed an attempt, and left a Started attempt of an
\* available task alone.
C10_Witness ==
    /\ last.op = "close_expired"
    /\ last.n >= 1
    /\ \E i \in AttemptIds :
        attempts[i].state = STARTED /\ is_available(tasks[attempts[i].task], now)

\* C11: close_stale_onetime_attempts closes (with requires_notification =
\* TRUE) exactly the Started attempts of non-repeatable tasks that were
\* created longer ago than the expiration duration, and leaves every other
\* attempt as it was.
C11_CloseStaleOlderThanDuration ==
    [][CloseStaleOnetimeAttempts =>
        /\ Len(attempts') = Len(attempts)
        /\ \A i \in AttemptIds :
            IF /\ attempts[i].state = STARTED
               /\ ~tasks[attempts[i].task].repeatable
               /\ now - attempts[i].created > TASK_ATTEMPT_EXPIRATION_DURATION
            THEN attempts'[i] = [attempts[i] EXCEPT !.state = CLOSED,
                                                    !.requires_notification = TRUE]
            ELSE attempts'[i] = attempts[i]]_vars

\* C12: every task that is available at a time n, and is repeatable or has no
\* Started and no Finished attempt, is matched by
\* is_available_filter(now=n, allow_expired=False).
C12_FilterSelectsAvailable ==
    \A t \in Tasks, n \in FilterTimes :
        ( /\ is_available(tasks[t], n)
          /\ (tasks[t].repeatable \/ Live(t) = {}) )
        => is_available_filter(tasks, attempts, t, n, FALSE)

\* C13: for two values of now on the same calendar day the filter matches
\* the same tasks.
C13_FilterStableWithinDay ==
    \A t \in Tasks, n1 \in FilterTimes, n2 \in FilterTimes, x \in BOOLEAN :
        (n1 \div DayLen = n2 \div DayLen)
        => (is_available_filter(tasks, attempts, t, n1, x)
                <=> is_available_filter(tasks, attempts, t, n2, x))

\* C14: is_taken is true exactly when the task is non-repeatable and has a
\* Started attempt, is_completed exactly when it is non-repeatable and has a
\* Finished attempt; both are false for a repeatable task whatever its
\* attempts.
C14_TakenAndCompleted ==
    \A t \in Tasks :
        /\ is_taken(tasks, attempts, t)
            <=> (~tasks[t].repeatable
                 /\ \E i \in OnTask(t) : attempts[i].state = STARTED)
        /\ is_completed(tasks, attempts, t)
            <=> (~tasks[t].repeatable
                 /\ \E i \in OnTask(t) : attempts[i].state = FINISHED)
        /\ tasks[t].repeatable
            => ~is_taken(tasks, attempts, t) /\ ~is_completed(tasks, attempts, t)

\* The non-repeatable task is completed and not taken while the repeatable
\* task has a Started attempt.
C14_Witness ==
    \E t1, t2 \in Tasks :
        /\ is_completed(tasks, attempts, t1) /\ ~is_taken(tasks, attempts, t1)
        /\ tasks[t2].repeatable
        /\ \E i \in OnTask(t2) : attempts[i].state = STARTED

Abs(x) == IF x < 0 THEN -x ELSE x

\* The whole seconds between created and modified of the attempt shown.
ShownSeconds == (shown.modified \div SecondLen) - (shown.created \div SecondLen)

\* C15: attempt_length_in_minutes is the difference in whole seconds of
\* modified and created divided by 60 and rounded to one decimal place (no
\* value of one decimal place is nearer to the quotient), and an attempt
\* modified 90 seconds after it was created has length 1.5.
C15_AttemptLength ==
    /\ \A v \in attempt_length_in_minutes(shown) :
        \A w \in 0..(MaxSeconds * ROUND_1) :
            Abs(SECONDS_PER_MINUTE * v - ROUND_1 * ShownSeconds)
                <= Abs(SECONDS_PER_MINUTE * w - ROUND_1 * ShownSeconds)
    /\ shown.modified = shown.created + 90 * SecondLen
        => attempt_length_in_minutes(shown) = {15}

\* An attempt created within a second and modified 90 seconds later.
C15_Witness ==
    /\ shown.created % SecondLen # 0
    /\ shown.modified = shown.created + 90 * SecondLen

\* C16: with allow_expired = TRUE the filter does not depend on end_date (two
\* tasks that differ only in end_date are both matched or both not), and
\* with allow_expired = FALSE a task whose end_date is not after the
\* normalized now is never matched.
C16_AllowExpired ==
    \A t \in Tasks, n \in FilterTimes :
        /\ \A e \in FilterDates :
            is_available_filter([tasks EXCEPT ![t].end_date = e], attempts, t, n, TRUE)
                <=> is_available_filter(tasks, attempts, t, n, TRUE)
        /\ \A e \in FilterTimes :
            e <= now_replace(n)
                => ~is_available_filter([tasks EXCEPT ![t].end_date = e],
                                        attempts, t, n, FALSE)

\* A task past its end_date that the filter matches with allow_expired and
\* does not match without.
C16_Witness ==
    \E t \in Tasks :
        /\ tasks[t].end_date # None
        /\ tasks[t].end_date < now_replace(now)
        /\ is_available_filter(tasks, attempts, t, now, TRUE)
        /\ ~is_available_filter(tasks, attempts, t, now, FALSE)

\* The keyword rows of task t.
KeywordsOf(rows, t) == {i \in 1..Len(rows) : rows[i].task = t}

\* The table after task t ran replace_keywords(kws, creator) on it.
Replaced(t, kws, creator) ==
    create_keywords(keyword_set_delete(keywords, t), t, kws, creator)

\* C17: after replace_keywords(kws, creator) on task t the keywords of t are
\* the non-empty strings of kws, one row per occurrence, all with the given
\* creator (so none of its earlier keywords and no empty keyword remains),
\* and the keyword rows of the other tasks are as before.
C17_ReplaceKeywords ==
    \A t \in Tasks, kws \in KeywordLists, u \in Users :
        LET after == Replaced(t, kws, u)
        IN /\ \A name \in Names :
                Cardinality({i \in KeywordsOf(after, t) : after[i].name = name})
                    = IF name = "" THEN 0
                      ELSE Cardinality({j \in 1..Len(kws) : kws[j] = name})
           /\ \A i \in KeywordsOf(after, t) : after[i].creator = u
           /\ SelectSeq(after, LAMBDA r : r.task # t)
                = SelectSeq(keywords, LAMBDA r : r.task # t)

\* A task holds the same keyword twice while the other task holds a keyword
\* of another creator.
C17_Witness ==
    \E i, j, k \in 1..Len(keywords) :
        /\ i # j
        /\ keywords[i].task = keywords[j].task
        /\ keywords[i].name = keywords[j].name
        /\ keywords[k].task # keywords[i].task
        /\ keywords[k].creator # keywords[i].creator

\* C18: a non-repeatable task that is available and that
\* is_available_filter(allow_expired=False) matches (it has no Started and no
\* Finished attempt) is available to every user.
C18_FilterAgreesWithUserCheck ==
    \A t \in Tasks :
        ( /\ ~tasks[t].repeatable
          /\ is_available(tasks[t], now)
          /\ is_available_filter(tasks, attempts, t, now, FALSE) )
        => \A u \in Users : is_available_to_user(tasks, attempts, t, u, now)

\* C19: starting without Closed attempts, after any sequence of attempt
\* creations, finishes, abandons, Task.save calls and sweeps every Closed
\* attempt has requires_notification = TRUE.
C19_ClosedRequiresNotification ==
    \A i \in AttemptIds :
        attempts[i].state = CLOSED => attempts[i].requires_notification = TRUE

\* A sweep has just closed an attempt while another attempt, closed
\* earlier, is Closed too.
C19_Witness ==
    /\ last.op \in {"close_stale", "close_expired"}
    /\ last.n = 1
    /\ \E i, j \in AttemptIds :
        i # j /\ attempts[i].state = CLOSED /\ attempts[j].state = CLOSED

\* C20: a sweep run again right after a run, with the same rows and the same
\* current time, changes no attempt; for close_expired_task_attempts the
\* second call returns 0.
C20_SweepsIdempotent ==
    [][/\ CloseExpiredTaskAttempts =>
            LET r == close_expired_loop(attempts', tasks', now', 1, 0)
            IN r.attempts = attempts' /\ r.closed = 0
       /\ CloseStaleOnetimeAttempts =>
            update_closed(attempts', stale_rows(attempts', tasks', now')) = attempts'
      ]_vars

\* close_expired_task_attempts has just closed two attempts.
C20_Witness ==
    /\ last.op = "close_expired"
    /\ last.n >= 2
====
